---- MODULE Spec2Model ----
(***************************************************************************)
(* CircularBuffer<T> of src/src/lib.rs: a fixed-capacity ring buffer.      *)
(* The element type is u8-like: T == 0..MaxVal with T::default() == 0.     *)
(* Every public method is a pure operator from the buffer (a record of the *)
(* struct's fields) to the buffer it leaves, the Result's status and the   *)
(* returned values; every action applies one method to the current buffer. *)
(***************************************************************************)
EXTENDS Integers, Sequences, FiniteSets, TLC

\* ---------------------------------------------------------------- bounds
MaxCap == 3
MaxVal == 1
\* the longest slice handed to write_many and the largest amount asked of
\* read_many and peek_many
MaxLen == 3

\* ------------------------------------------------------------ element type
Default == 0
T == 0..MaxVal

RECURSIVE SeqsUpTo(_)
SeqsUpTo(n) ==
    IF n = 0 THEN {<<>>}
    ELSE LET shorter == SeqsUpTo(n - 1)
         IN  shorter \cup {Append(s, v) : s \in {x \in shorter : Len(x) = n - 1}, v \in T}

\* the slices handed to write_many
Slices == SeqsUpTo(MaxLen)

\* ------------------------------------------------------------ result kinds
Ok == "Ok"
BufferFull == "CircularBuffer is full"
InsufficientSpace == "CircularBuffer does not have enough space for the provided elements"
BufferEmpty == "CircularBuffer is empty"
InsufficientElements == "CircularBuffer does not contain the amount of requested elements"
\* an index out of bounds, an arithmetic underflow or an unwrap of an Err
Panic == "panic"

VARIABLES
    capacity,         \* maximum amount of elements the buffer can hold
    buffer,           \* the slots, indexed 0..capacity-1
    index_start,      \* index of the oldest element
    index_next_free,  \* non-inclusive index of where the data stops
    size,             \* amount of elements currently stored
    op,               \* the last call: its name, slice argument, amount argument
    pre,              \* the buffer as it was before the last call
    status,           \* Ok, or the error the last call returned
    out,              \* the values the last call returned
    fifo,             \* reference queue: the values written and not yet removed
    pre_fifo          \* the reference queue before the last call

vars == <<capacity, buffer, index_start, index_next_free, size,
          op, pre, status, out, fifo, pre_fifo>>

\* the struct as one value
Self ==
    [capacity |-> capacity, buffer |-> buffer, index_start |-> index_start,
     index_next_free |-> index_next_free, size |-> size]

Res(self, st, o) == [self |-> self, status |-> st, out |-> o]

\* ------------------------------------------------------------- the methods
new(cap) ==
    [capacity |-> cap, buffer |-> [i \in 0..(cap - 1) |-> Default],
     index_start |-> 0, index_next_free |-> 0, size |-> 0]

Size(self) == self.size

Capacity(self) == self.capacity

\* fault seeded for C5: emptiness decided by comparing the two indices, as
\* the comment above is_empty says, which also holds of a full buffer
is_empty_by_index(self) == self.index_start = self.index_next_free

is_empty(self) == self.size = 0

\* fault seeded for C11: fullness decided by comparing the two indices,
\* which also holds of an empty buffer
is_full_by_index(self) == self.index_start = self.index_next_free

\* fault seeded for C18: a buffer without slots is never reported full
is_full_nonzero(self) == self.capacity > 0 /\ self.size = self.capacity

is_full(self) == self.size = self.capacity

\* fault seeded for C6: the wrap test is off by one
increase_index_late(self, index) ==
    IF index = self.capacity THEN 0 ELSE index + 1

\* fault seeded for C12: the index is advanced without wrapping
increase_index_nowrap(self, index) == index + 1

\* capacity - 1 is a usize subtraction: with capacity 0 it underflows, a
\* panic in a debug build; the callers test increase_index_underflows first
increase_index_underflows(self) == self.capacity < 1

increase_index(self, index) ==
    IF index = self.capacity - 1 THEN 0 ELSE index + 1

\* fault seeded for C2: the slot is stored before the full test
write_store_first(self, value) ==
    IF self.index_next_free \notin DOMAIN self.buffer
    THEN Res(self, IF is_full(self) THEN BufferFull ELSE Panic, <<>>)
    ELSE LET stored == [self EXCEPT !.buffer[self.index_next_free] = value]
         IN  IF ~is_full(self)
             THEN Res([stored EXCEPT !.index_next_free = increase_index(self, self.index_next_free),
                                     !.size = self.size + 1],
                      Ok, <<>>)
             ELSE Res(stored, BufferFull, <<>>)

\* fault seeded for C13: the next-free index is not advanced
write_keeps_tail(self, value) ==
    IF ~is_full(self)
    THEN IF self.index_next_free \notin DOMAIN self.buffer
         THEN Res(self, Panic, <<>>)
         ELSE Res([self EXCEPT !.buffer[self.index_next_free] = value,
                               !.size = self.size + 1],
                  Ok, <<>>)
    ELSE Res(self, BufferFull, <<>>)

\* fault seeded for C17: the next-free index is advanced before the store
write_advance_first(self, value) ==
    IF ~is_full(self)
    THEN LET next == increase_index(self, self.index_next_free)
         IN  IF next \notin DOMAIN self.buffer
             THEN Res(self, Panic, <<>>)
             ELSE Res([self EXCEPT !.buffer[next] = value,
                                   !.index_next_free = next,
                                   !.size = self.size + 1],
                      Ok, <<>>)
    ELSE Res(self, BufferFull, <<>>)

write(self, value) ==
    IF ~is_full(self)
    THEN IF self.index_next_free \notin DOMAIN self.buffer
              \/ increase_index_underflows(self)
         THEN Res(self, Panic, <<>>)
         ELSE Res([self EXCEPT !.buffer[self.index_next_free] = value,
                               !.index_next_free = increase_index(self, self.index_next_free),
                               !.size = self.size + 1],
                  Ok, <<>>)
    ELSE Res(self, BufferFull, <<>>)

RECURSIVE write_loop(_, _, _)
write_loop(self, values, i) ==
    IF i > Len(values) THEN Res(self, Ok, <<>>)
    ELSE LET r == write(self, values[i])
         IN  IF r.status # Ok THEN r
             ELSE write_loop(r.self, values, i + 1)

\* fault seeded for C3: no up-front space test, the inner write's error is
\* passed on after a prefix has been written
write_many_unchecked(self, values) == write_loop(self, values, 1)

\* fault seeded for C15: the slice is written last element first
write_many_reversed(self, values) ==
    IF self.capacity < Size(self) THEN Res(self, Panic, <<>>)
    ELSE IF Len(values) > self.capacity - Size(self)
    THEN Res(self, InsufficientSpace, <<>>)
    ELSE write_loop(self, [j \in 1..Len(values) |-> values[Len(values) + 1 - j]], 1)

\* capacity - size() is a usize subtraction: it underflows (a panic in a
\* debug build) only if size exceeds capacity
write_many(self, values) ==
    IF self.capacity < Size(self) THEN Res(self, Panic, <<>>)
    ELSE IF Len(values) > self.capacity - Size(self)
    THEN Res(self, InsufficientSpace, <<>>)
    ELSE write_loop(self, values, 1)

\* fault seeded for C1: the head index is not advanced
read_stuck(self) ==
    IF ~is_empty(self)
    THEN IF self.index_start \notin DOMAIN self.buffer
         THEN Res(self, Panic, <<>>)
         ELSE Res([self EXCEPT !.buffer[self.index_start] = Default,
                               !.size = self.size - 1],
                  Ok, <<self.buffer[self.index_start]>>)
    ELSE Res(self, BufferEmpty, <<>>)

\* fault seeded for C16: the head index is advanced before the slot is taken
read_after_advance(self) ==
    IF ~is_empty(self)
    THEN LET next == increase_index(self, self.index_start)
         IN  IF next \notin DOMAIN self.buffer
             THEN Res(self, Panic, <<>>)
             ELSE Res([self EXCEPT !.buffer[next] = Default,
                                   !.index_start = next,
                                   !.size = self.size - 1],
                      Ok, <<self.buffer[next]>>)
    ELSE Res(self, BufferEmpty, <<>>)

\* fault seeded for C19: the slot is copied out, not replaced by the default
read_keeps_slot(self) ==
    IF ~is_empty(self)
    THEN IF self.index_start \notin DOMAIN self.buffer
         THEN Res(self, Panic, <<>>)
         ELSE Res([self EXCEPT !.index_start = increase_index(self, self.index_start),
                               !.size = self.size - 1],
                  Ok, <<self.buffer[self.index_start]>>)
    ELSE Res(self, BufferEmpty, <<>>)

\* size - 1 is a usize subtraction: it underflows only if size is 0
read(self) ==
    IF ~is_empty(self)
    THEN IF self.index_start \notin DOMAIN self.buffer
              \/ increase_index_underflows(self)
              \/ self.size < 1
         THEN Res(self, Panic, <<>>)
         ELSE Res([self EXCEPT !.buffer[self.index_start] = Default,
                               !.index_start = increase_index(self, self.index_start),
                               !.size = self.size - 1],
                  Ok, <<self.buffer[self.index_start]>>)
    ELSE Res(self, BufferEmpty, <<>>)

RECURSIVE read_loop(_, _, _)
read_loop(self, vec, n) ==
    IF n = 0 THEN Res(self, Ok, vec)
    ELSE LET r == read(self)
         IN  IF r.status # Ok THEN Res(r.self, r.status, <<>>)
             ELSE read_loop(r.self, vec \o r.out, n - 1)

\* fault seeded for C4: no up-front amount test, the inner read's error is
\* passed on after a prefix has been read
read_many_unchecked(self, amount) == read_loop(self, <<>>, amount)

\* fault seeded for C8: the loop runs one time too few
read_many_short(self, amount) ==
    IF amount > Size(self)
    THEN Res(self, InsufficientElements, <<>>)
    ELSE read_loop(self, <<>>, IF amount > 0 THEN amount - 1 ELSE 0)

read_many(self, amount) ==
    IF amount > Size(self)
    THEN Res(self, InsufficientElements, <<>>)
    ELSE read_loop(self, <<>>, amount)

\* fault seeded for C9: the first slot of the array is returned, not the
\* slot at index_start
peek_first_slot(self) ==
    IF ~is_empty(self)
    THEN IF 0 \notin DOMAIN self.buffer
         THEN Res(self, Panic, <<>>)
         ELSE Res(self, Ok, <<self.buffer[0]>>)
    ELSE Res(self, BufferEmpty, <<>>)

peek(self) ==
    IF ~is_empty(self)
    THEN IF self.index_start \notin DOMAIN self.buffer
         THEN Res(self, Panic, <<>>)
         ELSE Res(self, Ok, <<self.buffer[self.index_start]>>)
    ELSE Res(self, BufferEmpty, <<>>)

RECURSIVE peek_loop(_, _, _, _)
peek_loop(self, vec, index, n) ==
    IF n = 0 THEN Res(self, Ok, vec)
    ELSE IF index \notin DOMAIN self.buffer \/ increase_index_underflows(self)
    THEN Res(self, Panic, <<>>)
    ELSE peek_loop(self, Append(vec, self.buffer[index]), increase_index(self, index), n - 1)

\* fault seeded for C7: the index is advanced without wrapping
peek_many_nowrap(self, amount) ==
    IF amount > Size(self)
    THEN Res(self, InsufficientElements, <<>>)
    ELSE IF amount > 0 /\ self.index_start + amount - 1 \notin DOMAIN self.buffer
    THEN Res(self, Panic, <<>>)
    ELSE Res(self, Ok, [j \in 1..amount |-> self.buffer[self.index_start + j - 1]])

peek_many(self, amount) ==
    IF amount > Size(self)
    THEN Res(self, InsufficientElements, <<>>)
    ELSE peek_loop(self, <<>>, self.index_start, amount)

\* fault seeded for C10: the count is reset, the elements are not read
clear_reset_size(self) == Res([self EXCEPT !.size = 0], Ok, <<>>)

RECURSIVE clear(_)
clear(self) ==
    IF ~is_empty(self)
    THEN LET r == read(self)
         IN  IF r.status # Ok THEN Res(r.self, Panic, <<>>)
             ELSE clear(r.self)
    ELSE Res(self, Ok, <<>>)

\* u8's to_string: the decimal digits, most significant first
Digits == <<"0", "1", "2", "3", "4", "5", "6", "7", "8", "9">>

RECURSIVE ToStr(_)
ToStr(n) ==
    IF n < 10 THEN Digits[n + 1]
    ELSE ToStr(n \div 10) \o Digits[(n % 10) + 1]

\* the loop of to_string from slot i on, output being the text so far;
\* capacity - 1 is evaluated inside the loop only, where i < capacity
RECURSIVE to_string_loop(_, _, _)
to_string_loop(self, output, i) ==
    IF i >= self.capacity THEN Res(self, Ok, <<output \o "]">>)
    ELSE IF i >= self.index_start /\ i < self.index_next_free
              /\ i \notin DOMAIN self.buffer
    THEN Res(self, Panic, <<>>)
    ELSE LET slot == IF i >= self.index_start /\ i < self.index_next_free
                     THEN ToStr(self.buffer[i])
                     ELSE "_"
             comma == IF i # self.capacity - 1 THEN "," ELSE ""
         IN  to_string_loop(self, output \o slot \o comma, i + 1)

to_string(self) == to_string_loop(self, "[", 0)

\* ------------------------------------------------------------ the machine
Call(name, values, amount) == [name |-> name, values |-> values, amount |-> amount]

\* one call made on the current buffer: r is what the method returned,
\* q the reference queue after it
Apply(call, r, q) ==
    /\ status # Panic
    /\ capacity' = r.self.capacity
    /\ buffer' = r.self.buffer
    /\ index_start' = r.self.index_start
    /\ index_next_free' = r.self.index_next_free
    /\ size' = r.self.size
    /\ op' = call
    /\ pre' = Self
    /\ status' = r.status
    /\ out' = r.out
    /\ fifo' = q
    /\ pre_fifo' = fifo

\* the reference queue q without its n oldest values
Drop(q, n) == SubSeq(q, n + 1, Len(q))

Init ==
    /\ capacity \in 0..MaxCap
    /\ buffer = new(capacity).buffer
    /\ index_start = new(capacity).index_start
    /\ index_next_free = new(capacity).index_next_free
    /\ size = new(capacity).size
    /\ op = Call("new", <<>>, capacity)
    /\ pre = new(capacity)
    /\ status = Ok
    /\ out = <<>>
    /\ fifo = <<>>
    /\ pre_fifo = <<>>

Write ==
    \E value \in T :
        LET r == write(Self, value)
        IN  Apply(Call("write", <<value>>, 0), r,
                  IF r.status = Ok THEN Append(fifo, value) ELSE fifo)

WriteMany ==
    \E values \in Slices :
        LET r == write_many(Self, values)
        IN  Apply(Call("write_many", values, 0), r,
                  IF r.status = Ok THEN fifo \o values ELSE fifo)

Read ==
    LET r == read(Self)
    IN  Apply(Call("read", <<>>, 0), r,
              IF r.status = Ok THEN Drop(fifo, 1) ELSE fifo)

ReadMany ==
    \E amount \in 0..MaxLen :
        LET r == read_many(Self, amount)
        IN  Apply(Call("read_many", <<>>, amount), r,
                  IF r.status = Ok THEN Drop(fifo, amount) ELSE fifo)

Peek ==
    Apply(Call("peek", <<>>, 0), peek(Self), fifo)

PeekMany ==
    \E amount \in 0..MaxLen :
        Apply(Call("peek_many", <<>>, amount), peek_many(Self, amount), fifo)

Clear ==
    Apply(Call("clear", <<>>, 0), clear(Self), <<>>)

SizeOf ==
    Apply(Call("size", <<>>, 0), Res(Self, Ok, <<Size(Self)>>), fifo)

CapacityOf ==
    Apply(Call("capacity", <<>>, 0), Res(Self, Ok, <<Capacity(Self)>>), fifo)

IsEmpty ==
    Apply(Call("is_empty", <<>>, 0), Res(Self, Ok, <<is_empty(Self)>>), fifo)

IsFull ==
    Apply(Call("is_full", <<>>, 0), Res(Self, Ok, <<is_full(Self)>>), fifo)

\* to_string, and print, which writes to_string's text to the standard output
ToStringCall ==
    Apply(Call("to_string", <<>>, 0), to_string(Self), fifo)

Next ==
    \/ Write
    \/ WriteMany
    \/ Read
    \/ ReadMany
    \/ Peek
    \/ PeekMany
    \/ Clear
    \/ SizeOf
    \/ CapacityOf
    \/ IsEmpty
    \/ IsFull
    \/ ToStringCall

Spec == Init /\ [][Next]_vars

\* ------------------------------------------- clear, one iteration at a time
\* the status of a clear that has been called and has not returned
Running == "running"

\* clear is called: nothing has been read yet
ClearBegin ==
    /\ status \notin {Panic, Running}
    /\ op' = Call("clear", <<>>, 0)
    /\ pre' = Self
    /\ pre_fifo' = fifo
    /\ status' = Running
    /\ out' = <<>>
    /\ UNCHANGED <<capacity, buffer, index_start, index_next_free, size, fifo>>

\* fault seeded for C20: an if in place of the while, clear returns after
\* its first read
ClearStep_once ==
    /\ status = Running
    /\ LET r == IF ~is_empty(Self) THEN read(Self) ELSE Res(Self, Ok, <<>>)
       IN  /\ capacity' = r.self.capacity
           /\ buffer' = r.self.buffer
           /\ index_start' = r.self.index_start
           /\ index_next_free' = r.self.index_next_free
           /\ size' = r.self.size
           /\ status' = IF r.status = Ok THEN Ok ELSE Panic
           /\ out' = out \o r.out
           /\ fifo' = Drop(fifo, Len(r.out))
    /\ UNCHANGED <<op, pre, pre_fifo>>

\* one test of the while condition: the buffer is empty and clear returns,
\* or one read().unwrap() whose value is dropped; out lists the dropped
\* values in the order they were dropped
ClearStep ==
    /\ status = Running
    /\ IF ~is_empty(Self)
       THEN LET r == read(Self)
            IN  /\ capacity' = r.self.capacity
                /\ buffer' = r.self.buffer
                /\ index_start' = r.self.index_start
                /\ index_next_free' = r.self.index_next_free
                /\ size' = r.self.size
                /\ status' = IF r.status = Ok THEN Running ELSE Panic
                /\ out' = out \o r.out
                /\ fifo' = Drop(fifo, Len(r.out))
       ELSE /\ status' = Ok
            /\ UNCHANGED <<capacity, buffer, index_start, index_next_free, size, out, fifo>>
    /\ UNCHANGED <<op, pre, pre_fifo>>

\* single writes and reads, and clear run iteration by iteration; no other
\* call starts while clear runs (the buffer is borrowed mutably)
NextSteps ==
    \/ status # Running /\ Write
    \/ status # Running /\ Read
    \/ ClearBegin
    \/ ClearStep

\* a clear that has been called keeps running: the loop is sequential code
SpecSteps == Init /\ [][NextSteps]_vars /\ WF_vars(ClearStep)

\* ======================================================== the properties
\* the live window of the spec: the elements at start, start+1, ...,
\* start+count-1, each index taken modulo the capacity, oldest first
LiveSeq(self) ==
    [j \in 1..self.size |-> self.buffer[(self.index_start + j - 1) % self.capacity]]

Wrapped(self) == self.index_start + self.size > self.capacity

\* C1: FIFO order.  The values returned by successful read and read_many
\* calls are the successfully written values that clear did not remove, in
\* the order they were written: every successful read returns the head of
\* the reference queue, every successful read_many(k) its first k values,
\* and the live window always holds exactly the reference queue (no value
\* lost, duplicated or reordered), also after the indices have wrapped.
C1_FifoOrder ==
    /\ size = Len(fifo)
    /\ capacity >= 1 => LiveSeq(Self) = fifo
    /\ op.name = "read" =>
          /\ (status = Ok) <=> (pre_fifo # <<>>)
          /\ status = Ok => out = SubSeq(pre_fifo, 1, 1)
    /\ op.name = "read_many" =>
          /\ (status = Ok) <=> (op.amount <= Len(pre_fifo))
          /\ status = Ok => out = SubSeq(pre_fifo, 1, op.amount)
    /\ op.name \in {"write", "write_many"} /\ status = Ok =>
          LiveSeq(Self) = LiveSeq(pre) \o op.values

\* a read that succeeds on a window wrapped past the end of the array, with
\* two different values in it
C1_Witness ==
    /\ op.name = "read"
    /\ status = Ok
    /\ Wrapped(pre)
    /\ Len(pre_fifo) >= 2
    /\ pre_fifo[1] # pre_fifo[2]
    /\ out = <<pre_fifo[1]>>

\* C2: write fails with BufferFull exactly when the buffer is full, and a
\* failed write changes no field and no slot.
C2_WriteFull ==
    op.name = "write" =>
        /\ status \in {Ok, BufferFull}
        /\ (status = BufferFull) <=> (pre.size = pre.capacity)
        /\ status = BufferFull => Self = pre

C2_Witness ==
    /\ op.name = "write"
    /\ status = BufferFull
    /\ capacity >= 2
    /\ size = capacity
    /\ index_start # 0
    /\ op.values[1] # buffer[index_next_free]

\* C3: write_many is all-or-nothing.  It fails with InsufficientSpace iff
\* the slice is longer than capacity - size (an empty slice succeeds on a
\* full buffer), and a failed write_many changes no field and no slot.
C3_WriteManyAtomic ==
    op.name = "write_many" =>
        /\ status \in {Ok, InsufficientSpace}
        /\ (status = InsufficientSpace) <=> (Len(op.values) > pre.capacity - pre.size)
        /\ status # Ok => Self = pre
        /\ (op.values = <<>> /\ pre.size = pre.capacity) => status = Ok

\* a slice that fits only in part is refused
C3_Witness ==
    /\ op.name = "write_many"
    /\ status = InsufficientSpace
    /\ 0 < pre.size
    /\ pre.size < pre.capacity
    /\ Len(op.values) > pre.capacity - pre.size
    /\ Self = pre

\* C4: read_many(k) and peek_many(k) fail with InsufficientElements iff
\* k > size (k = 0 succeeds on an empty buffer), and a failed read_many
\* changes no field and no slot.
C4_ManyInsufficient ==
    op.name \in {"read_many", "peek_many"} =>
        /\ status \in {Ok, InsufficientElements}
        /\ (status = InsufficientElements) <=> (op.amount > pre.size)
        /\ status # Ok => Self = pre
        /\ (op.amount = 0 /\ pre.size = 0) => (status = Ok /\ out = <<>>)

\* a read_many asking for more than the (non-zero) number of elements held
C4_Witness ==
    /\ op.name = "read_many"
    /\ status = InsufficientElements
    /\ 0 < pre.size
    /\ op.amount > pre.size
    /\ Self = pre

\* C5: read and peek fail with BufferEmpty exactly when size = 0, and the
\* failure changes no field and no slot.
C5_EmptyFails ==
    op.name \in {"read", "peek"} =>
        /\ status \in {Ok, BufferEmpty}
        /\ (status = BufferEmpty) <=> (pre.size = 0)
        /\ status = BufferEmpty => Self = pre

\* a read refused on a buffer emptied by earlier reads
C5_Witness ==
    /\ op.name = "read"
    /\ status = BufferEmpty
    /\ capacity >= 1
    /\ index_start # 0
    /\ Self = pre

\* a caller making one write per element of vs, stopping at the first error
RECURSIVE Writes(_, _)
Writes(self, vs) ==
    IF vs = <<>> THEN Res(self, Ok, <<>>)
    ELSE LET r == write(self, Head(vs))
         IN  IF r.status # Ok THEN r ELSE Writes(r.self, Tail(vs))

\* a caller making n reads, stopping at the first error; out collects the
\* returned values in call order
RECURSIVE Reads(_, _)
Reads(self, n) ==
    IF n = 0 THEN Res(self, Ok, <<>>)
    ELSE LET r == read(self)
         IN  IF r.status # Ok THEN r
             ELSE LET rest == Reads(r.self, n - 1)
                  IN  Res(rest.self, rest.status, r.out \o rest.out)

\* writing vs to self and reading Len(vs) elements back gives vs, by the
\* bulk calls and by the single calls
RoundTrip(self, vs) ==
    LET wm == write_many(self, vs)
        ws == Writes(self, vs)
        rm == read_many(wm.self, Len(vs))
        rs == Reads(ws.self, Len(vs))
    IN  /\ wm.status = Ok
        /\ ws.status = Ok
        /\ wm.self = ws.self
        /\ wm.self.size = self.size + Len(vs)
        /\ rm.status = Ok
        /\ rs.status = Ok
        /\ rm.out = vs
        /\ rs.out = vs
        /\ rm.self = rs.self
        /\ rm.self.size = self.size

\* C6: round trip after wrap.  From every reachable empty buffer of capacity
\* C >= 1, whatever index_start earlier cycles left, writing any C elements
\* (C writes or one write_many) fills the buffer, and reading C elements
\* (C reads or read_many(C)) returns them in order and empties the buffer;
\* and every read_many(C) made on a full buffer returns the C values written,
\* in order, and leaves the buffer empty.
C6_RoundTrip ==
    /\ (capacity >= 1 /\ size = 0) =>
          \A vs \in [1..capacity -> T] :
              /\ RoundTrip(Self, vs)
              /\ is_full(write_many(Self, vs).self)
              /\ is_empty(read_many(write_many(Self, vs).self, capacity).self)
    /\ (op.name = "read_many" /\ capacity >= 1 /\ op.amount = capacity /\ pre.size = capacity) =>
          /\ status = Ok
          /\ out = pre_fifo
          /\ Len(out) = capacity
          /\ is_empty(Self)

\* a full buffer whose window wraps, read back whole
C6_Witness ==
    /\ op.name = "read_many"
    /\ capacity >= 2
    /\ op.amount = capacity
    /\ pre.size = capacity
    /\ pre.index_start # 0
    /\ status = Ok
    /\ out = pre_fifo
    /\ out[1] # out[2]
    /\ size = 0

\* C7: a successful peek_many(k), k <= size, returns the k oldest elements
\* oldest first, the sequence read_many(k) would return from that state,
\* and changes no field and no slot.
C7_PeekMany ==
    (op.name = "peek_many" /\ op.amount <= pre.size) =>
        /\ status = Ok
        /\ out = SubSeq(pre_fifo, 1, op.amount)
        /\ read_many(pre, op.amount).status = Ok
        /\ out = read_many(pre, op.amount).out
        /\ Self = pre

\* a peek_many whose elements lie on both sides of the end of the array
C7_Witness ==
    /\ op.name = "peek_many"
    /\ status = Ok
    /\ op.amount >= 2
    /\ pre.index_start + op.amount > pre.capacity
    /\ out[1] # out[2]
    /\ Self = pre

\* C8: a successful read_many(k), k <= size, returns the k oldest elements
\* oldest first and leaves the buffer as k consecutive successful reads do:
\* size reduced by k, index_start advanced k positions modulo the capacity,
\* the k vacated slots reset to the default, everything else unchanged; no
\* inner read fails.
C8_ReadMany ==
    (op.name = "read_many" /\ op.amount <= pre.size) =>
        LET k == op.amount
            vacated == {(pre.index_start + j) % pre.capacity : j \in 0..(k - 1)}
        IN  /\ status = Ok
            /\ out = [j \in 1..k |-> pre.buffer[(pre.index_start + j - 1) % pre.capacity]]
            /\ out = SubSeq(pre_fifo, 1, k)
            /\ size = pre.size - k
            /\ capacity = pre.capacity
            /\ capacity >= 1 => index_start = (pre.index_start + k) % capacity
            /\ index_next_free = pre.index_next_free
            /\ buffer = [i \in DOMAIN pre.buffer |->
                            IF i \in vacated THEN Default ELSE pre.buffer[i]]
            /\ Reads(pre, k) = Res(Self, Ok, out)

\* a read_many of two different values, one on each side of the end of the
\* array, that leaves an element behind
C8_Witness ==
    /\ op.name = "read_many"
    /\ status = Ok
    /\ op.amount = 2
    /\ pre.size > 2
    /\ pre.index_start = pre.capacity - 1
    /\ out[1] # out[2]
    /\ index_start = 1

\* C9: on a non-empty buffer peek returns the element at index_start and
\* changes nothing; a read made right after it returns the same value, and
\* so does another peek.
C9_Peek ==
    /\ (op.name = "peek" /\ pre.size > 0) =>
          /\ status = Ok
          /\ out = <<pre.buffer[pre.index_start]>>
          /\ out = SubSeq(pre_fifo, 1, 1)
          /\ Self = pre
          /\ peek(Self) = Res(Self, Ok, out)
          /\ read(Self).status = Ok
          /\ read(Self).out = out
    /\ (op.name = "read" /\ status = Ok) =>
          /\ peek(pre).status = Ok
          /\ peek(pre).out = out

\* a peek at a non-default element that is not in slot 0
C9_Witness ==
    /\ op.name = "peek"
    /\ status = Ok
    /\ index_start # 0
    /\ size >= 2
    /\ out = <<buffer[index_start]>>
    /\ buffer[index_start] # buffer[0]
    /\ Self = pre

\* C10: after clear, size() is 0 and is_empty() holds, capacity() and the
\* number of slots are what they were, and writes and reads that follow are
\* FIFO wherever index_start was left.
C10_Clear ==
    op.name = "clear" =>
        /\ status = Ok
        /\ Size(Self) = 0
        /\ is_empty(Self)
        /\ Capacity(Self) = pre.capacity
        /\ DOMAIN buffer = DOMAIN pre.buffer
        /\ \A vs \in Slices : Len(vs) <= capacity => RoundTrip(Self, vs)

\* a clear of a wrapped window that leaves index_start away from 0
C10_Witness ==
    /\ op.name = "clear"
    /\ status = Ok
    /\ pre.size >= 2
    /\ Wrapped(pre)
    /\ index_start # 0
    /\ size = 0

C12_Ranges ==
    /\ op.name = "new" => capacity = op.amount
    /\ capacity = pre.capacity
    /\ capacity >= 1 =>
          /\ 0 <= size
          /\ size <= capacity
          /\ index_start \in 0..(capacity - 1)
          /\ index_next_free \in 0..(capacity - 1)
          /\ DOMAIN buffer = 0..(capacity - 1)

\* a failed call on a full buffer whose head is the last slot
C12_Witness ==
    /\ status \notin {Ok, Panic}
    /\ capacity >= 2
    /\ size = capacity
    /\ index_start = capacity - 1
    /\ index_next_free = capacity - 1

RECURSIVE WindowText(_, _)
WindowText(self, i) ==
    IF i >= self.capacity THEN "]"
    ELSE (IF self.index_start <= i /\ i < self.index_start + self.size
          THEN ToStr(self.buffer[i])
          ELSE "_")
         \o (IF i # self.capacity - 1 THEN "," ELSE "")
         \o WindowText(self, i + 1)

\* C14: in every reachable state, a full buffer and a wrapped window
\* included, to_string shows for each slot i of 0..capacity the element's
\* text if start <= i < start + count and "_" otherwise.
C14_ToStringWindow ==
    op.name = "to_string" =>
        /\ status = Ok
        /\ out = <<"[" \o WindowText(pre, 0)>>

\* the slots of the live window
Window(self) ==
    {(self.index_start + j) % self.capacity : j \in 0..(self.size - 1)}

\* C15: a successful write_many(values) leaves the buffer as one write per
\* value, in input order, does: the values in the slots from the end of data
\* on (modulo the capacity), size raised by their number; once the space
\* test has passed no inner write fails, so no error follows a written
\* prefix.
C15_WriteMany ==
    op.name = "write_many" =>
        /\ Len(op.values) <= pre.capacity - pre.size =>
              LET n == Len(op.values)
                  slot(j) == (pre.index_next_free + j - 1) % pre.capacity
              IN  /\ status = Ok
                  /\ Writes(pre, op.values) = Res(Self, Ok, <<>>)
                  /\ size = pre.size + n
                  /\ capacity = pre.capacity
                  /\ index_start = pre.index_start
                  /\ capacity >= 1 => index_next_free = (pre.index_next_free + n) % capacity
                  /\ buffer = [i \in DOMAIN pre.buffer |->
                                  IF \E j \in 1..n : slot(j) = i
                                  THEN op.values[CHOOSE j \in 1..n : slot(j) = i]
                                  ELSE pre.buffer[i]]
        /\ status # BufferFull
        /\ status # Ok => Self = pre

\* a write_many of two different values, one on each side of the end of the
\* array
C15_Witness ==
    /\ op.name = "write_many"
    /\ status = Ok
    /\ Len(op.values) >= 2
    /\ op.values[1] # op.values[2]
    /\ pre.index_next_free = pre.capacity - 1
    /\ buffer[0] = op.values[2]

\* C16: a successful read returns the element at index_start, resets that
\* slot to the default, advances index_start to (index_start + 1) mod
\* capacity, lowers size by exactly 1, and leaves index_next_free and every
\* other slot as they were.
C16_Read ==
    (op.name = "read" /\ pre.size > 0) =>
        /\ status = Ok
        /\ out = <<pre.buffer[pre.index_start]>>
        /\ buffer = [pre.buffer EXCEPT ![pre.index_start] = Default]
        /\ index_start = (pre.index_start + 1) % pre.capacity
        /\ size = pre.size - 1
        /\ index_next_free = pre.index_next_free
        /\ capacity = pre.capacity

\* a read of a non-default element from the last slot, another element
\* staying behind
C16_Witness ==
    /\ op.name = "read"
    /\ status = Ok
    /\ capacity >= 2
    /\ pre.index_start = capacity - 1
    /\ index_start = 0
    /\ out # <<Default>>
    /\ buffer[pre.index_start] = Default
    /\ size >= 1
    /\ buffer[0] # Default

\* C17: a successful write stores the value in the slot at the end of data,
\* (start + size) mod capacity, raises size by exactly 1 and leaves
\* index_start and every other slot as they were; that slot is outside the
\* live window, so no element still to be read is overwritten.
C17_Write ==
    (op.name = "write" /\ pre.size < pre.capacity) =>
        LET end == (pre.index_start + pre.size) % pre.capacity
        IN  /\ status = Ok
            /\ buffer = [pre.buffer EXCEPT ![end] = op.values[1]]
            /\ size = pre.size + 1
            /\ index_start = pre.index_start
            /\ capacity = pre.capacity
            /\ end \notin Window(pre)
            /\ LiveSeq(Self) = Append(LiveSeq(pre), op.values[1])

\* a write of a non-default value into a slot below the head
C17_Witness ==
    /\ op.name = "write"
    /\ status = Ok
    /\ pre.size >= 1
    /\ Wrapped(Self)
    /\ op.values[1] # Default
    /\ buffer[(pre.index_start + pre.size) % capacity] = op.values[1]
    /\ (pre.index_start + pre.size) % capacity < index_start

\* C18: no call panics in any reachable state, for every capacity, 0
\* included: the last call did not panic and no call made now would; the
\* indices used are slots of the array; capacity - size, size - 1 and
\* capacity - 1 are not evaluated where they would underflow; and with
\* capacity 0 the buffer is both empty and full, write fails with
\* BufferFull, read and peek fail with BufferEmpty, and increase_index is
\* not reached.
C18_NoPanic ==
    /\ status # Panic
    /\ \A value \in T : write(Self, value).status # Panic
    /\ \A values \in Slices : write_many(Self, values).status # Panic
    /\ read(Self).status # Panic
    /\ peek(Self).status # Panic
    /\ \A amount \in 0..MaxLen :
          /\ read_many(Self, amount).status # Panic
          /\ peek_many(Self, amount).status # Panic
    /\ clear(Self).status # Panic
    /\ to_string(Self).status # Panic
    /\ DOMAIN buffer = 0..(capacity - 1)
    /\ size <= capacity
    /\ ~is_full(Self) => (index_next_free \in DOMAIN buffer /\ ~increase_index_underflows(Self))
    /\ ~is_empty(Self) =>
          (index_start \in DOMAIN buffer /\ ~increase_index_underflows(Self) /\ size >= 1)
    /\ capacity = 0 =>
          /\ is_empty(Self)
          /\ is_full(Self)
          /\ \A value \in T : write(Self, value) = Res(Self, BufferFull, <<>>)
          /\ read(Self) = Res(Self, BufferEmpty, <<>>)
          /\ peek(Self) = Res(Self, BufferEmpty, <<>>)
          /\ op.name = "write" => status = BufferFull
          /\ op.name \in {"read", "peek"} => status = BufferEmpty
          /\ op.name = "to_string" => out = <<"[]">>

\* a write refused by a buffer of capacity 0
C18_Witness ==
    /\ capacity = 0
    /\ op.name = "write"
    /\ status = BufferFull
    /\ is_empty(Self)
    /\ is_full(Self)

\* C19: in every reachable state every slot outside the live window holds
\* the default value, so every slot of an empty buffer does, also right
\* after clear.
C19_DefaultOutside ==
    /\ \A i \in DOMAIN buffer : i \notin Window(Self) => buffer[i] = Default
    /\ size = 0 => \A i \in DOMAIN buffer : buffer[i] = Default

\* a clear of two non-default elements
C19_Witness ==
    /\ op.name = "clear"
    /\ pre.size >= 2
    /\ \A i \in Window(pre) : pre.buffer[i] # Default
    /\ size = 0
    /\ \A i \in DOMAIN buffer : buffer[i] = Default

\* C20: clear always terminates.  Called with size = n it makes exactly n
\* successful single reads, dropping each live element once, oldest first,
\* and then returns: while it runs the dropped values are a prefix of the
\* queue it was called on and size is n less their number; no read fails;
\* when it returns the dropped values are that whole queue, the buffer is
\* the one the whole call leaves, and index_start is the index_next_free
\* from before the call; and every clear that was called returns.
C20_ClearTerminates ==
    /\ [](op.name = "clear" =>
            /\ status \in {Running, Ok}
            /\ Len(out) <= pre.size
            /\ out = SubSeq(pre_fifo, 1, Len(out))
            /\ size = pre.size - Len(out)
            /\ index_next_free = pre.index_next_free
            /\ status = Ok =>
                  /\ Len(out) = pre.size
                  /\ out = pre_fifo
                  /\ size = 0
                  /\ index_start = pre.index_next_free
                  /\ Self = clear(pre).self
                  /\ Reads(pre, pre.size) = Res(Self, Ok, out))
    /\ (status = Running) ~> (status = Ok)

\* a clear that has returned after dropping two different values from a
\* wrapped window
C20_Witness ==
    /\ op.name = "clear"
    /\ status = Ok
    /\ Wrapped(pre)
    /\ Len(out) = pre.size
    /\ Len(out) >= 2
    /\ out[1] # out[2]
    /\ index_start = pre.index_next_free
    /\ index_start # 0

====
